---- MODULE Spec2Model ----
(***************************************************************************)
(* Model of libcore/iter/adapters/fuse.rs: the Fuse<I> iterator adapter,   *)
(* its general implementation (fuse! macro) and its specialization for     *)
(* I: FusedIterator (unchecked! macro).                                    *)
(*                                                                         *)
(* Option<T> is a sequence of length at most one: None = <<>>,             *)
(* Some(x) = <<x>>.  A Try value is a pair <<"Ok", acc>> or <<"Err", v>>.  *)
(***************************************************************************)
EXTENDS Integers, Sequences, FiniteSets, TLC

\* ----------------------------------------------------------------- bounds
MaxLen == 3            \* longest script of the wrapped sequence
MaxN == 1              \* largest argument of nth / nth_back

Items == {1, 2}

None == <<>>
Some(x) == <<x>>

\* ------------------------------------------------ the wrapped sequence I
\* A wrapped sequence is a script of Option<Item>: next() pops the front
\* entry, next_back() the back entry; an entry None is a call that returns
\* None although later calls return values again (a sequence that is not
\* fused).  hint says whether size_hint is overridden ("exact") or is the
\* trait's default (0, None).

RECURSIVE ScriptsOfLen(_)
ScriptsOfLen(n) ==
    IF n = 0 THEN {<<>>}
    ELSE {Append(s, e) : s \in ScriptsOfLen(n - 1), e \in {None} \cup {Some(x) : x \in Items}}

Scripts == UNION {ScriptsOfLen(n) : n \in 0..MaxLen}

Raw(items, hint) == [items |-> items, hint |-> hint]

RECURSIVE LeadLen(_)
\* number of values the script yields before its first None
LeadLen(items) ==
    IF items = <<>> \/ Head(items) = None THEN 0 ELSE 1 + LeadLen(Tail(items))

Front(items) == SubSeq(items, 1, Len(items) - 1)

\* What a call on a sequence gives back: the sequence after the call, the
\* returned value, the number of closure (fold function / predicate)
\* invocations it made, and whether it executed intrinsics::unreachable().
R(self, ret, fcalls) == [self |-> self, ret |-> ret, fcalls |-> fcalls, ub |-> FALSE]

\* Iterator::next / DoubleEndedIterator::next_back of the wrapped sequence
I_next(s) ==
    IF s.items = <<>> THEN R(s, None, 0)
    ELSE R([s EXCEPT !.items = Tail(@)], Head(s.items), 0)

I_next_back(s) ==
    IF s.items = <<>> THEN R(s, None, 0)
    ELSE R([s EXCEPT !.items = Front(@)], s.items[Len(s.items)], 0)

I_pull(back, s) == IF back THEN I_next_back(s) ELSE I_next(s)

\* The fold closure of a caller: it signals early termination (Err) on its
\* k-th invocation and otherwise continues with the item appended.
FoldFn(k, i, acc, x) ==
    IF i = k THEN <<"Err", Append(acc, x)>> ELSE <<"Ok", Append(acc, x)>>

\* Iterator::nth / nth_back (provided methods): pull until n items are
\* skipped or a pull returns None.
RECURSIVE I_nth_loop(_, _, _)
I_nth_loop(back, s, n) ==
    LET r == I_pull(back, s) IN
    IF r.ret = None THEN R(r.self, None, 0)
    ELSE IF n = 0 THEN R(r.self, r.ret, 0)
    ELSE I_nth_loop(back, r.self, n - 1)

\* Iterator::find / rfind (provided methods): pull until the predicate
\* (the set p of matching items) accepts an item or a pull returns None.
RECURSIVE I_find_loop(_, _, _, _)
I_find_loop(back, s, p, i) ==
    LET r == I_pull(back, s) IN
    IF r.ret = None THEN R(r.self, None, i)
    ELSE IF r.ret[1] \in p THEN R(r.self, r.ret, i + 1)
    ELSE I_find_loop(back, r.self, p, i + 1)

\* Iterator::try_fold / try_rfold (provided methods):
\*   while let Some(x) = self.next() { accum = f(accum, x)?; } from_ok(accum)
RECURSIVE I_try_fold_loop(_, _, _, _, _)
I_try_fold_loop(back, s, acc, k, i) ==
    LET r == I_pull(back, s) IN
    IF r.ret = None THEN R(r.self, <<"Ok", acc>>, i)
    ELSE LET f == FoldFn(k, i + 1, acc, r.ret[1]) IN
         IF f[1] = "Err" THEN R(r.self, f, i + 1)
         ELSE I_try_fold_loop(back, r.self, f[2], k, i + 1)

\* Iterator::fold / rfold (provided methods): fold every item up to the
\* first None with the closure acc -> Append(acc, x).
RECURSIVE I_fold_loop(_, _, _, _)
I_fold_loop(back, s, acc, i) ==
    LET r == I_pull(back, s) IN
    IF r.ret = None THEN R(r.self, acc, i)
    ELSE I_fold_loop(back, r.self, Append(acc, r.ret[1]), i + 1)

I_nth(s, n) == I_nth_loop(FALSE, s, n)
I_nth_back(s, n) == I_nth_loop(TRUE, s, n)
I_find(s, p) == I_find_loop(FALSE, s, p, 0)
I_rfind(s, p) == I_find_loop(TRUE, s, p, 0)
I_try_fold(s, acc, k) == I_try_fold_loop(FALSE, s, acc, k, 0)
I_try_rfold(s, acc, k) == I_try_fold_loop(TRUE, s, acc, k, 0)
I_fold(s, acc) == I_fold_loop(FALSE, s, acc, 0)
I_rfold(s, acc) == I_fold_loop(TRUE, s, acc, 0)

\* Iterator::count and Iterator::last (provided methods, by fold)
I_count(s) ==
    LET r == I_fold(s, <<>>) IN R(r.self, Len(r.ret), 0)

I_last(s) ==
    LET r == I_fold(s, <<>>) IN
    R(r.self, IF r.ret = <<>> THEN None ELSE Some(r.ret[Len(r.ret)]), 0)

\* Iterator::size_hint: the default (0, None), or the exact number of
\* values the sequence yields before it next returns None.
I_size_hint(s) ==
    IF s.hint = "exact" THEN <<LeadLen(s.items), Some(LeadLen(s.items))>>
    ELSE <<0, None>>

\* ExactSizeIterator::len / is_empty (provided methods, from size_hint)
I_len(s) == I_size_hint(s)[1]
I_is_empty(s) == I_len(s) = 0

\* TrustedRandomAccess::get_unchecked: the i-th remaining item, in place
I_get_unchecked(s, i) == s.items[i + 1][1]

\* ------------------------------------------------------------ Fuse<I>
\* pub struct Fuse<I> { iter: Option<I> }
Fuse_new(iter) == [iter |-> Some(iter)]

IsFuse(x) == "iter" \in DOMAIN x

\* What a call on the wrapper gives back: R plus the calls it forwarded to
\* the wrapped sequence, each with its operation, argument and result.
Out(self, ret, calls, fcalls) ==
    [self |-> self, ret |-> ret, calls |-> calls, fcalls |-> fcalls, ub |-> FALSE]

Call(op, arg, ret) == [op |-> op, arg |-> arg, ret |-> ret]

\* intrinsics::unreachable() was executed: undefined behaviour
Unreachable(self) ==
    [self |-> self, ret |-> None, calls |-> <<>>, fcalls |-> 0, ub |-> TRUE]

\* macro fuse!(self.iter.call): r is the outcome of iter.call on the wrapped
\* sequence, used only in the Some arm.
fuse(self, op, arg, r) ==
    IF self.iter # None
    THEN IF r.ret = None
         THEN Out([iter |-> None], None, <<Call(op, arg, r.ret)>>, r.fcalls)
         ELSE Out([iter |-> Some(r.self)], r.ret, <<Call(op, arg, r.ret)>>, r.fcalls)
    ELSE Out(self, None, <<>>, 0)

\* ---- variants with a plausible slip, each used to test one property
\* next() that forwards without resetting self.iter on None
FuseIteratorImpl_next_NoReset(self) ==
    IF self.iter # None
    THEN LET r == I_next(self.iter[1]) IN
         Out([iter |-> Some(r.self)], r.ret, <<Call("next", <<>>, r.ret)>>, 0)
    ELSE Out(self, None, <<>>, 0)

\* count() that trusts the lower bound of size_hint
FuseIteratorImpl_count_ByHint(self) ==
    IF self.iter # None
    THEN LET h == I_size_hint(self.iter[1]) IN
         Out(self, h[1], <<Call("size_hint", <<>>, h)>>, 0)
    ELSE Out(self, 0, <<>>, 0)

\* size_hint() that answers the trait's default (0, None) when absent
FuseIteratorImpl_size_hint_NoUpper(self) ==
    IF self.iter # None
    THEN LET h == I_size_hint(self.iter[1]) IN
         Out(self, h, <<Call("size_hint", <<>>, h)>>, 0)
    ELSE Out(self, <<0, None>>, <<>>, 0)

\* try_fold() that resets self.iter whatever the fold returned
FuseIteratorImpl_try_fold_AlwaysReset(self, acc, k) ==
    IF self.iter # None
    THEN LET r == I_try_fold(self.iter[1], acc, k) IN
         Out([iter |-> None], r.ret, <<Call("try_fold", <<acc, k>>, r.ret)>>, r.fcalls)
    ELSE Out(self, <<"Ok", acc>>, <<>>, 0)

\* rfold() that starts from an empty accumulator when absent
FuseDoubleEndedIteratorImpl_rfold_DropAcc(self, acc) ==
    IF self.iter # None
    THEN LET r == I_rfold(self.iter[1], acc) IN
         Out(self, r.ret, <<Call("rfold", <<acc>>, r.ret)>>, r.fcalls)
    ELSE Out(self, <<>>, <<>>, 0)

\* next_back() that forwards without resetting self.iter on None
FuseDoubleEndedIteratorImpl_next_back_NoReset(self) ==
    IF self.iter # None
    THEN LET r == I_next_back(self.iter[1]) IN
         Out([iter |-> Some(r.self)], r.ret, <<Call("next_back", <<>>, r.ret)>>, 0)
    ELSE Out(self, None, <<>>, 0)

\* try_rfold() that resets self.iter whatever the fold returned
FuseDoubleEndedIteratorImpl_try_rfold_AlwaysReset(self, acc, k) ==
    IF self.iter # None
    THEN LET r == I_try_rfold(self.iter[1], acc, k) IN
         Out([iter |-> None], r.ret, <<Call("try_rfold", <<acc, k>>, r.ret)>>, r.fcalls)
    ELSE Out(self, <<"Ok", acc>>, <<>>, 0)

\* nth() that pulls once more after the wrapped nth returned None
FuseIteratorImpl_nth_Retry(self, n) ==
    IF self.iter # None
    THEN LET r == I_nth(self.iter[1], n) IN
         IF r.ret = None
         THEN LET r2 == I_next(r.self) IN
              IF r2.ret = None
              THEN Out([iter |-> None], None,
                       <<Call("nth", <<n>>, r.ret), Call("next", <<>>, r2.ret)>>, 0)
              ELSE Out([iter |-> Some(r2.self)], r2.ret,
                       <<Call("nth", <<n>>, r.ret), Call("next", <<>>, r2.ret)>>, 0)
         ELSE Out([iter |-> Some(r.self)], r.ret, <<Call("nth", <<n>>, r.ret)>>, 0)
    ELSE Out(self, None, <<>>, 0)

\* try_fold() that keeps self.iter after the fold ran to completion
FuseIteratorImpl_try_fold_NoReset(self, acc, k) ==
    IF self.iter # None
    THEN LET r == I_try_fold(self.iter[1], acc, k) IN
         Out([iter |-> Some(r.self)], r.ret,
             <<Call("try_fold", <<acc, k>>, r.ret)>>, r.fcalls)
    ELSE Out(self, <<"Ok", acc>>, <<>>, 0)

\* find() that forwards without resetting self.iter on None
FuseIteratorImpl_find_NoReset(self, p) ==
    IF self.iter # None
    THEN LET r == I_find(self.iter[1], p) IN
         Out([iter |-> Some(r.self)], r.ret, <<Call("find", <<p>>, r.ret)>>, r.fcalls)
    ELSE Out(self, None, <<>>, 0)

\* nth_back() that skips from the front
FuseDoubleEndedIteratorImpl_nth_back_Forward(self, n) ==
    fuse(self, "nth_back", <<n>>, I_nth(self.iter[1], n))

\* len() that answers 1 when absent
FuseExactSizeIteratorImpl_len_Stale(self) ==
    IF self.iter # None
    THEN LET n == I_len(self.iter[1]) IN Out(self, n, <<Call("len", <<>>, n)>>, 0)
    ELSE Out(self, 1, <<>>, 0)

\* ---- impl FuseIteratorImpl for Fuse<I> where I: Iterator (general)
FuseIteratorImpl_next(self) ==
    fuse(self, "next", <<>>, I_next(self.iter[1]))

FuseIteratorImpl_nth(self, n) ==
    fuse(self, "nth", <<n>>, I_nth(self.iter[1], n))

FuseIteratorImpl_last(self) ==
    IF self.iter # None
    THEN LET r == I_last(self.iter[1]) IN
         Out(self, r.ret, <<Call("last", <<>>, r.ret)>>, r.fcalls)
    ELSE Out(self, None, <<>>, 0)

FuseIteratorImpl_count(self) ==
    IF self.iter # None
    THEN LET r == I_count(self.iter[1]) IN
         Out(self, r.ret, <<Call("count", <<>>, r.ret)>>, r.fcalls)
    ELSE Out(self, 0, <<>>, 0)

FuseIteratorImpl_size_hint(self) ==
    IF self.iter # None
    THEN LET h == I_size_hint(self.iter[1]) IN
         Out(self, h, <<Call("size_hint", <<>>, h)>>, 0)
    ELSE Out(self, <<0, Some(0)>>, <<>>, 0)

FuseIteratorImpl_try_fold(self, acc, k) ==
    IF self.iter # None
    THEN LET r == I_try_fold(self.iter[1], acc, k) IN
         IF r.ret[1] = "Err"
         THEN \* the ? operator returns the error; self.iter is not reset
              Out([iter |-> Some(r.self)], r.ret,
                  <<Call("try_fold", <<acc, k>>, r.ret)>>, r.fcalls)
         ELSE Out([iter |-> None], <<"Ok", r.ret[2]>>,
                  <<Call("try_fold", <<acc, k>>, r.ret)>>, r.fcalls)
    ELSE Out(self, <<"Ok", acc>>, <<>>, 0)

FuseIteratorImpl_fold(self, acc) ==
    IF self.iter # None
    THEN LET r == I_fold(self.iter[1], acc) IN
         Out(self, r.ret, <<Call("fold", <<acc>>, r.ret)>>, r.fcalls)
    ELSE Out(self, acc, <<>>, 0)

FuseIteratorImpl_find(self, p) ==
    fuse(self, "find", <<p>>, I_find(self.iter[1], p))

\* ---- impl FuseDoubleEndedIteratorImpl for Fuse<I> where I: DoubleEndedIterator
FuseDoubleEndedIteratorImpl_next_back(self) ==
    fuse(self, "next_back", <<>>, I_next_back(self.iter[1]))

FuseDoubleEndedIteratorImpl_nth_back(self, n) ==
    fuse(self, "nth_back", <<n>>, I_nth_back(self.iter[1], n))

FuseDoubleEndedIteratorImpl_try_rfold(self, acc, k) ==
    IF self.iter # None
    THEN LET r == I_try_rfold(self.iter[1], acc, k) IN
         IF r.ret[1] = "Err"
         THEN Out([iter |-> Some(r.self)], r.ret,
                  <<Call("try_rfold", <<acc, k>>, r.ret)>>, r.fcalls)
         ELSE Out([iter |-> None], <<"Ok", r.ret[2]>>,
                  <<Call("try_rfold", <<acc, k>>, r.ret)>>, r.fcalls)
    ELSE Out(self, <<"Ok", acc>>, <<>>, 0)

FuseDoubleEndedIteratorImpl_rfold(self, acc) ==
    IF self.iter # None
    THEN LET r == I_rfold(self.iter[1], acc) IN
         Out(self, r.ret, <<Call("rfold", <<acc>>, r.ret)>>, r.fcalls)
    ELSE Out(self, acc, <<>>, 0)

FuseDoubleEndedIteratorImpl_rfind(self, p) ==
    fuse(self, "rfind", <<p>>, I_rfind(self.iter[1], p))

\* ---- impl FuseExactSizeIteratorImpl for Fuse<I> where I: ExactSizeIterator
FuseExactSizeIteratorImpl_len(self) ==
    IF self.iter # None
    THEN LET n == I_len(self.iter[1]) IN Out(self, n, <<Call("len", <<>>, n)>>, 0)
    ELSE Out(self, 0, <<>>, 0)

FuseExactSizeIteratorImpl_is_empty(self) ==
    IF self.iter # None
    THEN LET b == I_is_empty(self.iter[1]) IN
         Out(self, b, <<Call("is_empty", <<>>, b)>>, 0)
    ELSE Out(self, TRUE, <<>>, 0)

\* ---- unsafe impl TrustedRandomAccess for Fuse<I>: r is the outcome of
\* iter.get_unchecked(i), used only in the Some arm.
get_unchecked(self, i, r) ==
    IF self.iter # None
    THEN IF r.ub THEN Unreachable(self)
         ELSE Out([iter |-> Some(r.self)], r.ret,
                  <<Call("get_unchecked", <<i>>, r.ret)>>, 0)
    ELSE Unreachable(self)

\* ---- a call on the wrapped value of a Fuse whose I: FusedIterator.  I is
\* a wrapped sequence that declares FusedIterator, or a Fuse<J> (which is
\* FusedIterator by `impl FusedIterator for Fuse<I>`) over a J that does
\* not, so that its calls go to the general implementation.
Strip(o) == [self |-> o.self, ret |-> o.ret, fcalls |-> o.fcalls, ub |-> o.ub]

Iterator_next(x) == IF IsFuse(x) THEN Strip(FuseIteratorImpl_next(x)) ELSE I_next(x)
Iterator_nth(x, n) == IF IsFuse(x) THEN Strip(FuseIteratorImpl_nth(x, n)) ELSE I_nth(x, n)
Iterator_last(x) == IF IsFuse(x) THEN Strip(FuseIteratorImpl_last(x)) ELSE I_last(x)
Iterator_count(x) == IF IsFuse(x) THEN Strip(FuseIteratorImpl_count(x)) ELSE I_count(x)
Iterator_size_hint(x) ==
    IF IsFuse(x) THEN Strip(FuseIteratorImpl_size_hint(x)) ELSE R(x, I_size_hint(x), 0)
Iterator_try_fold(x, acc, k) ==
    IF IsFuse(x) THEN Strip(FuseIteratorImpl_try_fold(x, acc, k)) ELSE I_try_fold(x, acc, k)
Iterator_fold(x, acc) ==
    IF IsFuse(x) THEN Strip(FuseIteratorImpl_fold(x, acc)) ELSE I_fold(x, acc)
Iterator_find(x, p) == IF IsFuse(x) THEN Strip(FuseIteratorImpl_find(x, p)) ELSE I_find(x, p)
Iterator_next_back(x) ==
    IF IsFuse(x) THEN Strip(FuseDoubleEndedIteratorImpl_next_back(x)) ELSE I_next_back(x)
Iterator_nth_back(x, n) ==
    IF IsFuse(x) THEN Strip(FuseDoubleEndedIteratorImpl_nth_back(x, n)) ELSE I_nth_back(x, n)
Iterator_try_rfold(x, acc, k) ==
    IF IsFuse(x) THEN Strip(FuseDoubleEndedIteratorImpl_try_rfold(x, acc, k))
    ELSE I_try_rfold(x, acc, k)
Iterator_rfold(x, acc) ==
    IF IsFuse(x) THEN Strip(FuseDoubleEndedIteratorImpl_rfold(x, acc)) ELSE I_rfold(x, acc)
Iterator_rfind(x, p) ==
    IF IsFuse(x) THEN Strip(FuseDoubleEndedIteratorImpl_rfind(x, p)) ELSE I_rfind(x, p)
Iterator_len(x) ==
    IF IsFuse(x) THEN Strip(FuseExactSizeIteratorImpl_len(x)) ELSE R(x, I_len(x), 0)
Iterator_is_empty(x) ==
    IF IsFuse(x) THEN Strip(FuseExactSizeIteratorImpl_is_empty(x)) ELSE R(x, I_is_empty(x), 0)
Iterator_get_unchecked(x, i) ==
    IF IsFuse(x)
    THEN Strip(get_unchecked(x, i, R(x.iter[1], I_get_unchecked(x.iter[1], i), 0)))
    ELSE R(x, I_get_unchecked(x, i), 0)

\* macro unchecked!(self).call: r is the outcome of iter.call on the wrapped
\* value, used only in the Some arm; the None arm is unreachable().
unchecked(self, op, arg, r) ==
    IF self.iter # None
    THEN IF r.ub THEN Unreachable(self)
         ELSE Out([iter |-> Some(r.self)], r.ret, <<Call(op, arg, r.ret)>>, r.fcalls)
    ELSE Unreachable(self)

\* ---- variants of the specialization with a plausible slip
\* find() that goes through fuse! although I: FusedIterator
FuseIteratorImpl_find_Fused_Checked(self, p) ==
    fuse(self, "find", <<p>>, Iterator_find(self.iter[1], p))

\* next_back() that goes through fuse! although I: FusedIterator
FuseDoubleEndedIteratorImpl_next_back_Fused_Checked(self) ==
    fuse(self, "next_back", <<>>, Iterator_next_back(self.iter[1]))

\* try_fold() that resets self.iter once the fold has run to completion
FuseIteratorImpl_try_fold_Fused_Reset(self, acc, k) ==
    LET o == unchecked(self, "try_fold", <<acc, k>>, Iterator_try_fold(self.iter[1], acc, k)) IN
    IF ~o.ub /\ o.ret[1] = "Ok" THEN [o EXCEPT !.self = [iter |-> None]] ELSE o

\* ---- impl FuseIteratorImpl for Fuse<I> where I: FusedIterator
FuseIteratorImpl_next_Fused(self) ==
    unchecked(self, "next", <<>>, Iterator_next(self.iter[1]))

FuseIteratorImpl_nth_Fused(self, n) ==
    unchecked(self, "nth", <<n>>, Iterator_nth(self.iter[1], n))

FuseIteratorImpl_last_Fused(self) ==
    unchecked(self, "last", <<>>, Iterator_last(self.iter[1]))

FuseIteratorImpl_count_Fused(self) ==
    unchecked(self, "count", <<>>, Iterator_count(self.iter[1]))

FuseIteratorImpl_size_hint_Fused(self) ==
    unchecked(self, "size_hint", <<>>, Iterator_size_hint(self.iter[1]))

FuseIteratorImpl_try_fold_Fused(self, acc, k) ==
    unchecked(self, "try_fold", <<acc, k>>, Iterator_try_fold(self.iter[1], acc, k))

FuseIteratorImpl_fold_Fused(self, acc) ==
    unchecked(self, "fold", <<acc>>, Iterator_fold(self.iter[1], acc))

FuseIteratorImpl_find_Fused(self, p) ==
    unchecked(self, "find", <<p>>, Iterator_find(self.iter[1], p))

\* ---- impl FuseDoubleEndedIteratorImpl for Fuse<I>
\*      where I: DoubleEndedIterator + FusedIterator
FuseDoubleEndedIteratorImpl_next_back_Fused(self) ==
    unchecked(self, "next_back", <<>>, Iterator_next_back(self.iter[1]))

FuseDoubleEndedIteratorImpl_nth_back_Fused(self, n) ==
    unchecked(self, "nth_back", <<n>>, Iterator_nth_back(self.iter[1], n))

FuseDoubleEndedIteratorImpl_try_rfold_Fused(self, acc, k) ==
    unchecked(self, "try_rfold", <<acc, k>>, Iterator_try_rfold(self.iter[1], acc, k))

FuseDoubleEndedIteratorImpl_rfold_Fused(self, acc) ==
    unchecked(self, "rfold", <<acc>>, Iterator_rfold(self.iter[1], acc))

FuseDoubleEndedIteratorImpl_rfind_Fused(self, p) ==
    unchecked(self, "rfind", <<p>>, Iterator_rfind(self.iter[1], p))

\* ---- impl FuseExactSizeIteratorImpl for Fuse<I>
\*      where I: ExactSizeIterator + FusedIterator
FuseExactSizeIteratorImpl_len_Fused(self) ==
    unchecked(self, "len", <<>>, Iterator_len(self.iter[1]))

FuseExactSizeIteratorImpl_is_empty_Fused(self) ==
    unchecked(self, "is_empty", <<>>, Iterator_is_empty(self.iter[1]))

\* ---- specialization: the implementation rustc selects for Fuse<I>.
\* A wrapped type t is [wraps, fused, exact]: wraps = "I" for a wrapped
\* sequence, whose type implements the marker trait FusedIterator iff
\* t.fused and ExactSizeIterator iff t.exact, and wraps = "Fuse" for a
\* Fuse<I> over a sequence that does not implement FusedIterator.
\* impl<I> FusedIterator for Fuse<I> where I: Iterator {}
declares(t) == IF t.wraps = "Fuse" THEN TRUE ELSE t.fused

SelectPath(t) == IF declares(t) THEN "fused" ELSE "general"

\* ---- impl Iterator / DoubleEndedIterator / ExactSizeIterator /
\*      TrustedRandomAccess for Fuse<I>
Fuse_next(path, self) ==
    IF path = "fused" THEN FuseIteratorImpl_next_Fused(self) ELSE FuseIteratorImpl_next(self)
Fuse_nth(path, self, n) ==
    IF path = "fused" THEN FuseIteratorImpl_nth_Fused(self, n)
    ELSE FuseIteratorImpl_nth(self, n)
Fuse_last(path, self) ==
    IF path = "fused" THEN FuseIteratorImpl_last_Fused(self) ELSE FuseIteratorImpl_last(self)
Fuse_count(path, self) ==
    IF path = "fused" THEN FuseIteratorImpl_count_Fused(self)
    ELSE FuseIteratorImpl_count(self)
Fuse_size_hint(path, self) ==
    IF path = "fused" THEN FuseIteratorImpl_size_hint_Fused(self)
    ELSE FuseIteratorImpl_size_hint(self)
Fuse_try_fold(path, self, acc, k) ==
    IF path = "fused" THEN FuseIteratorImpl_try_fold_Fused(self, acc, k)
    ELSE FuseIteratorImpl_try_fold(self, acc, k)
Fuse_fold(path, self, acc) ==
    IF path = "fused" THEN FuseIteratorImpl_fold_Fused(self, acc)
    ELSE FuseIteratorImpl_fold(self, acc)
Fuse_find(path, self, p) ==
    IF path = "fused" THEN FuseIteratorImpl_find_Fused(self, p)
    ELSE FuseIteratorImpl_find(self, p)
Fuse_next_back(path, self) ==
    IF path = "fused" THEN FuseDoubleEndedIteratorImpl_next_back_Fused(self)
    ELSE FuseDoubleEndedIteratorImpl_next_back(self)
Fuse_nth_back(path, self, n) ==
    IF path = "fused" THEN FuseDoubleEndedIteratorImpl_nth_back_Fused(self, n)
    ELSE FuseDoubleEndedIteratorImpl_nth_back(self, n)
Fuse_try_rfold(path, self, acc, k) ==
    IF path = "fused" THEN FuseDoubleEndedIteratorImpl_try_rfold_Fused(self, acc, k)
    ELSE FuseDoubleEndedIteratorImpl_try_rfold(self, acc, k)
Fuse_rfold(path, self, acc) ==
    IF path = "fused" THEN FuseDoubleEndedIteratorImpl_rfold_Fused(self, acc)
    ELSE FuseDoubleEndedIteratorImpl_rfold(self, acc)
Fuse_rfind(path, self, p) ==
    IF path = "fused" THEN FuseDoubleEndedIteratorImpl_rfind_Fused(self, p)
    ELSE FuseDoubleEndedIteratorImpl_rfind(self, p)
Fuse_len(path, self) ==
    IF path = "fused" THEN FuseExactSizeIteratorImpl_len_Fused(self)
    ELSE FuseExactSizeIteratorImpl_len(self)
Fuse_is_empty(path, self) ==
    IF path = "fused" THEN FuseExactSizeIteratorImpl_is_empty_Fused(self)
    ELSE FuseExactSizeIteratorImpl_is_empty(self)
Fuse_get_unchecked(self, i) ==
    get_unchecked(self, i, Iterator_get_unchecked(self.iter[1], i))

\* ------------------------------------------------------------- state
VARIABLES
    ty,         \* the wrapped type I: [wraps, fused, exact]
    path,       \* the implementation selected for Fuse<I>: "general" / "fused"
    wrapper,    \* the Fuse<I> value
    alive,      \* the wrapper has not been moved into count/last/fold/rfold
    ub,         \* intrinsics::unreachable() has been executed
    res,        \* the last call on the wrapper: op, arg, ret, calls, fcalls
    ref,        \* a copy of the wrapped value, driven directly by the same calls
    refRes,     \* what the last call returned on ref
    pre,        \* before the last call: the wrapper's iter, whether it was
                \* freshly built, and the operations that had returned None
    exhausted   \* a call forwarded by the wrapper has reported exhaustion

vars == <<ty, path, wrapper, alive, ub, res, ref, refRes, pre, exhausted>>

Preds == SUBSET Items              \* a predicate is the set of items it accepts
Accs == {<<>>, <<0>>}              \* initial accumulators
Stops == 1..(MaxLen + 1)           \* the fold function stops at its k-th call
PullOps == {"next", "next_back", "nth", "nth_back", "find", "rfind"}
TryOps == {"try_fold", "try_rfold"}
ConsumeOps == {"count", "last", "fold", "rfold"}

Types == {[wraps |-> w, fused |-> f, exact |-> e] :
             w \in {"I", "Fuse"}, f \in BOOLEAN, e \in BOOLEAN} \
         {t \in [wraps : {"Fuse"}, fused : {TRUE}, exact : BOOLEAN] : TRUE}

\* Fuse::new(iter), called by Iterator::fuse
Init ==
    \E items \in Scripts, t \in Types :
        LET hint == IF t.exact THEN "exact" ELSE "default"
            inner == IF t.wraps = "Fuse" THEN Fuse_new(Raw(items, hint))
                     ELSE Raw(items, hint) IN
        /\ ty = t
        /\ path = SelectPath(t)
        /\ wrapper = Fuse_new(inner)
        /\ ref = inner
        /\ alive = TRUE
        /\ ub = FALSE
        /\ res = [op |-> "new", arg |-> <<>>, ret |-> None, calls |-> <<>>, fcalls |-> 0]
        /\ refRes = None
        /\ pre = [iter |-> wrapper.iter, fresh |-> FALSE, observed |-> {}]
        /\ exhausted = FALSE

\* The operations of the wrapper that have returned None so far
Observed ==
    IF res.op \in PullOps /\ res.ret = None
    THEN pre.observed \cup {res.op} ELSE pre.observed

\* A forwarded call reported exhaustion: a pull returned None, or a bulk
\* operation ran to completion.
Reports(c) ==
    \/ c.op \in PullOps /\ c.ret = None
    \/ c.op \in TryOps /\ c.ret[1] = "Ok"
    \/ c.op \in ConsumeOps

\* One call op(arg) on the wrapper with outcome out, and on ref with
\* outcome refOut.  After unreachable() anything may be returned and the
\* wrapper may be left in either state.
Step(op, arg, out, refOut) ==
    /\ alive
    /\ IF out.ub
       THEN /\ ub' = TRUE
            /\ wrapper' \in {wrapper, [iter |-> None]}
            /\ \E r \in {None} \cup {Some(x) : x \in Items} :
                   res' = [op |-> op, arg |-> arg, ret |-> r, calls |-> <<>>, fcalls |-> 0]
       ELSE /\ ub' = ub
            /\ wrapper' = IF op \in ConsumeOps THEN wrapper ELSE out.self
            /\ res' = [op |-> op, arg |-> arg, ret |-> out.ret,
                       calls |-> out.calls, fcalls |-> out.fcalls]
    /\ alive' = (op \notin ConsumeOps)
    /\ ref' = refOut.self
    /\ refRes' = refOut.ret
    /\ pre' = [iter |-> wrapper.iter, fresh |-> (res.op = "new"), observed |-> Observed]
    /\ exhausted' = (exhausted \/ \E j \in 1..Len(out.calls) : Reports(out.calls[j]))
    /\ UNCHANGED <<ty, path>>

Next_ == Step("next", <<>>, Fuse_next(path, wrapper), Iterator_next(ref))

NextBack == Step("next_back", <<>>, Fuse_next_back(path, wrapper), Iterator_next_back(ref))

Nth == \E n \in 0..MaxN : Step("nth", <<n>>, Fuse_nth(path, wrapper, n), Iterator_nth(ref, n))

NthBack ==
    \E n \in 0..MaxN :
        Step("nth_back", <<n>>, Fuse_nth_back(path, wrapper, n), Iterator_nth_back(ref, n))

Find == \E p \in Preds : Step("find", <<p>>, Fuse_find(path, wrapper, p), Iterator_find(ref, p))

RFind ==
    \E p \in Preds : Step("rfind", <<p>>, Fuse_rfind(path, wrapper, p), Iterator_rfind(ref, p))

TryFold ==
    \E acc \in Accs, k \in Stops :
        Step("try_fold", <<acc, k>>, Fuse_try_fold(path, wrapper, acc, k),
             Iterator_try_fold(ref, acc, k))

TryRFold ==
    \E acc \in Accs, k \in Stops :
        Step("try_rfold", <<acc, k>>, Fuse_try_rfold(path, wrapper, acc, k),
             Iterator_try_rfold(ref, acc, k))

Fold == \E acc \in Accs : Step("fold", <<acc>>, Fuse_fold(path, wrapper, acc), Iterator_fold(ref, acc))

RFold ==
    \E acc \in Accs : Step("rfold", <<acc>>, Fuse_rfold(path, wrapper, acc), Iterator_rfold(ref, acc))

Count == Step("count", <<>>, Fuse_count(path, wrapper), Iterator_count(ref))

Last == Step("last", <<>>, Fuse_last(path, wrapper), Iterator_last(ref))

SizeHint == Step("size_hint", <<>>, Fuse_size_hint(path, wrapper), Iterator_size_hint(ref))

\* ExactSizeIterator for Fuse<I> needs I: ExactSizeIterator, whose size_hint
\* is exact.
ExactSize == ty.exact

LenOp == ExactSize /\ Step("len", <<>>, Fuse_len(path, wrapper), Iterator_len(ref))

IsEmpty == ExactSize /\ Step("is_empty", <<>>, Fuse_is_empty(path, wrapper), Iterator_is_empty(ref))

\* TrustedRandomAccess::get_unchecked(i): the caller guarantees that i is
\* below the length the wrapper reports.
GetUnchecked ==
    /\ ExactSize
    /\ alive
    /\ \E i \in 0..(MaxLen - 1) :
        /\ ~Fuse_len(path, wrapper).ub
        /\ i < Fuse_len(path, wrapper).ret
        /\ Step("get_unchecked", <<i>>, Fuse_get_unchecked(wrapper, i),
                IF i < Iterator_len(ref).ret THEN Iterator_get_unchecked(ref, i)
                ELSE R(ref, None, 0))

Next ==
    \/ Next_ \/ NextBack \/ Nth \/ NthBack \/ Find \/ RFind
    \/ TryFold \/ TryRFold \/ Fold \/ RFold \/ Count \/ Last
    \/ SizeHint \/ LenOp \/ IsEmpty \/ GetUnchecked

Spec == Init /\ [][Next]_vars

\* ------------------------------------------------------------ properties
General == path = "general"
Present(w) == w.iter # None
HoleFree(items) == \A j \in 1..Len(items) : items[j] # None

\* The neutral result of an operation: None, 0, the accumulator unchanged
\* (as success for the try folds), (0, Some(0)), true.
Neutral(op, arg) ==
    CASE op \in PullOps \cup {"last"} -> None
      [] op \in {"count", "len"} -> 0
      [] op \in TryOps -> <<"Ok", arg[1]>>
      [] op \in {"fold", "rfold"} -> arg[1]
      [] op = "size_hint" -> <<0, Some(0)>>
      [] op = "is_empty" -> TRUE

\* C1: on the general path, once a next() on the wrapper has returned None,
\* every later next() on the wrapper returns None, whatever the wrapped
\* sequence would return.
C1_MonotonicExhaustion ==
    (General /\ res.op = "next" /\ "next" \in pre.observed) => res.ret = None

\* a later next() returns None although the wrapped sequence, driven
\* directly by the same calls, returns a value on that call
C1_Witness ==
    /\ General /\ res.op = "next" /\ "next" \in pre.observed
    /\ res.ret = None /\ refRes # None

\* C2: on the general path, once next() or next_back() has returned None,
\* every later next() and next_back() returns None.
C2_JointExhaustion ==
    (/\ General
     /\ res.op \in {"next", "next_back"}
     /\ pre.observed \cap {"next", "next_back"} # {})
    => res.ret = None

\* next_back() returns None after only next() had returned None, although
\* the wrapped sequence still yields a value from the back
C2_Witness ==
    /\ General /\ res.op = "next_back" /\ pre.observed = {"next"}
    /\ res.ret = None /\ refRes # None

\* C3: on the general path, a call made in the absent state returns the
\* neutral result of its operation, forwards no call to the wrapped
\* sequence, invokes no closure, and leaves the wrapper absent.
C3_AbsentFixedPoint ==
    (General /\ res.op # "new" /\ pre.iter = None)
    => /\ res.ret = Neutral(res.op, res.arg)
       /\ res.calls = <<>>
       /\ res.fcalls = 0
       /\ wrapper.iter = None

\* a try_fold with a non-empty accumulator made in the absent state
C3_Witness ==
    /\ General /\ pre.iter = None /\ res.op = "try_fold" /\ res.arg[1] # <<>>
    /\ res.ret = <<"Ok", res.arg[1]>> /\ wrapper.iter = None

C5_AbsentIffExhausted ==
    (General /\ alive) => (wrapper.iter = None <=> exhausted)

\* both sides of the equivalence occur: absent after a completed try fold
C5_Witness ==
    /\ General /\ alive /\ exhausted /\ wrapper.iter = None
    /\ res.op = "try_rfold" /\ Present(pre) /\ res.fcalls > 0

\* a present wrapper after an early-terminated try fold (no exhaustion)
C5_WitnessPresent ==
    /\ General /\ alive /\ ~exhausted /\ wrapper.iter # None
    /\ res.op = "try_fold" /\ res.ret[1] = "Err"

\* The wrapped sequence held by a wrapper w
RawOf(w) == IF IsFuse(w.iter[1]) THEN w.iter[1].iter[1] ELSE w.iter[1]

\* C6: count() on a freshly built wrapper over a sequence of N values
\* returns N (for a sequence that is not fused: the number of values before
\* its first None), and count() on an absent wrapper returns 0 and forwards
\* no call.
C6_Count ==
    res.op = "count" =>
        /\ pre.fresh =>
              LET items == RawOf(pre).items IN
              /\ res.ret = LeadLen(items)
              /\ HoleFree(items) => res.ret = Len(items)
        /\ pre.iter = None => (res.ret = 0 /\ res.calls = <<>>)

\* count() on a fresh wrapper over at least two values
C6_Witness ==
    /\ res.op = "count" /\ pre.fresh /\ HoleFree(RawOf(pre).items)
    /\ res.ret >= 2 /\ res.ret = Len(RawOf(pre).items)

\* count() on an absent wrapper whose sequence was dropped with values left
C6_WitnessAbsent ==
    /\ res.op = "count" /\ pre.iter = None /\ res.ret = 0 /\ refRes > 0

Reported == pre.observed # {}

SizeOps == {"size_hint", "len", "is_empty"}

SizeZero ==
    /\ res.op = "size_hint" => res.ret = <<0, Some(0)>>
    /\ res.op = "len" => res.ret = 0
    /\ res.op = "is_empty" => res.ret = TRUE

\* C7 as claimed: in every state reached after the wrapper has reported
\* exhaustion, size_hint() returns (0, Some(0)), len() 0 and is_empty() true.
C7_SizeAfterExhaustion == (Reported /\ res.op \in SizeOps) => SizeZero

\* C7 as amended: the same, for a wrapper on the general path and for a
\* wrapper over a general-path wrapper; on the specialized path over a
\* sequence that declares FusedIterator the size is that sequence's answer.
C7_SizeAfterExhaustionGeneral ==
    /\ (Reported /\ res.op \in SizeOps /\ (General \/ ty.wraps = "Fuse")) => SizeZero
    /\ (Reported /\ res.op \in SizeOps /\ ~General /\ ty.wraps = "I")
       => res.ret = refRes

\* size_hint() is (0, Some(0)) after exhaustion although the wrapped
\* sequence, asked directly, reports one value or more
C7_Witness ==
    /\ General /\ Reported /\ res.op = "size_hint"
    /\ res.ret = <<0, Some(0)>> /\ refRes[1] > 0

\* C8: on the specialized path every call on the wrapper returns what the
\* same call returns on the wrapped sequence driven directly, leaves the
\* wrapped sequence in the same state, and forwards exactly one call, of
\* the same operation with the same argument.
C8Ops == PullOps \cup TryOps \cup {"size_hint", "len"}

C8_FastPathTransparent ==
    (path = "fused" /\ res.op \in C8Ops)
    => /\ res.ret = refRes
       /\ wrapper.iter = Some(ref)
       /\ res.calls = <<Call(res.op, res.arg, refRes)>>

\* a find() that runs the wrapped sequence out, after next() had already
\* returned None
C8_Witness ==
    /\ path = "fused" /\ ty.wraps = "I" /\ res.op = "find"
    /\ "next" \in pre.observed /\ res.ret = None /\ Len(res.calls) = 1

\* C9: a wrapper over a general-path wrapper is on the specialized path,
\* returns what the singly wrapped sequence returns for the same calls,
\* and never executes unreachable().
C9_NestingIdempotent ==
    ty.wraps = "Fuse"
    => /\ path = "fused"
       /\ ~ub
       /\ wrapper.iter # None
       /\ res.op # "new" => res.ret = refRes
       /\ alive => wrapper.iter[1] = ref

\* the inner wrapper is absent and the outer one keeps answering None
C9_Witness ==
    /\ ty.wraps = "Fuse" /\ wrapper.iter = Some([iter |-> None])
    /\ res.op = "next_back" /\ "next" \in pre.observed /\ res.ret = None

\* C10: on the specialized path the wrapped value is present in every
\* reachable state and unreachable() is never executed.
C10_FastPathPresent == path = "fused" => (wrapper.iter # None /\ ~ub)

\* a try fold that ran to completion after next() had returned None
C10_Witness ==
    /\ path = "fused" /\ "next" \in pre.observed
    /\ res.op = "try_fold" /\ res.ret[1] = "Ok" /\ wrapper.iter # None

VariantOps == {"nth", "nth_back", "find", "rfind"}

\* C11: on the general path, when nth, nth_back, find or rfind on a present
\* wrapper returns None the wrapper is absent on return, and once any pull
\* operation has returned None every later next, next_back, nth, nth_back,
\* find and rfind returns None.
C11_VariantsFuse ==
    /\ (General /\ res.op \in VariantOps /\ Present(pre) /\ res.ret = None)
       => wrapper.iter = None
    /\ (General /\ res.op \in PullOps /\ pre.observed # {}) => res.ret = None

\* next() returns None after only find() had returned None, although the
\* wrapped sequence, driven directly, yields a value on that call
C11_Witness ==
    /\ General /\ res.op = "next" /\ pre.observed = {"find"}
    /\ res.ret = None /\ refRes # None

\* C12: on the general path, a pull operation on a present wrapper returns
\* what the wrapped sequence returns for the same call (so the results agree
\* up to and including the first None), and when that is a value the
\* wrapper stays present, holding the sequence as the call left it.
C12_PassThrough ==
    (General /\ res.op \in PullOps /\ Present(pre))
    => /\ res.ret = refRes
       /\ res.calls = <<Call(res.op, res.arg, refRes)>>
       /\ res.ret # None => wrapper.iter = Some(ref)

\* nth_back(1) yields a value from a present wrapper that stays present
C12_Witness ==
    /\ General /\ res.op = "nth_back" /\ res.arg = <<1>> /\ Present(pre)
    /\ res.ret # None /\ res.ret = refRes /\ Present(wrapper)

\* C13: on the general path, when try_fold / try_rfold on a present wrapper
\* returns success, the wrapper is absent on return and the accumulator is
\* the one of the wrapped fold; next() and next_back() on an absent wrapper
\* return None and forward no call.
C13_CompletedFoldFuses ==
    /\ (General /\ res.op \in TryOps /\ Present(pre) /\ res.ret[1] = "Ok")
       => /\ wrapper.iter = None
          /\ res.ret = refRes
          /\ res.calls = <<Call(res.op, res.arg, refRes)>>
    /\ (General /\ res.op \in {"next", "next_back"} /\ pre.iter = None)
       => (res.ret = None /\ res.calls = <<>>)

\* next() returns None on a wrapper made absent by a completed try fold
\* alone (no pull has returned None), although the sequence resumes
C13_Witness ==
    /\ General /\ res.op = "next" /\ pre.iter = None /\ pre.observed = {}
    /\ res.ret = None /\ res.calls = <<>> /\ refRes # None

\* C14: every call on the wrapper forwards at most one call to the wrapped
\* sequence, and that call is the same operation with the same argument.
C14_OneShot ==
    res.op # "new"
    => /\ Len(res.calls) <= 1
       /\ \A j \in 1..Len(res.calls) :
              res.calls[j].op = res.op /\ res.calls[j].arg = res.arg

\* nth(1) forwarded once, answered None by a sequence that still has
\* entries, and not forwarded again
C14_Witness ==
    /\ General /\ res.op = "nth" /\ res.arg = <<1>> /\ Len(res.calls) = 1
    /\ res.ret = None /\ ref.items # <<>>

\* C15: a get_unchecked(i) called with i below the length the wrapper
\* reports finds the wrapper present, is forwarded to the wrapped
\* get_unchecked(i), does not execute unreachable(), and leaves the
\* wrapper as it was.
C15_GetUncheckedPresent ==
    res.op = "get_unchecked"
    => /\ Present(pre)
       /\ ~ub
       /\ res.calls = <<Call("get_unchecked", res.arg, res.ret)>>
       /\ res.ret = RawOf(pre).items[res.arg[1] + 1][1]
       /\ wrapper.iter = pre.iter

\* get_unchecked(1) on a general-path wrapper after a value was pulled
C15_Witness ==
    /\ General /\ res.op = "get_unchecked" /\ res.arg = <<1>>
    /\ ~pre.fresh /\ Present(wrapper) /\ res.ret \in Items

====
